---- MODULE Spec2Model ----
(***************************************************************************)
(* Model of the bidirectional 1:1 event queue of event/src/bidir.rs:       *)
(* Queue<Tp, Ts>(RefCell<(VecDeque<Tp>, VecDeque<Ts>)>) and its borrowed   *)
(* view Secondary.  The store is the pair of buffers, `borrow` is the      *)
(* RefCell borrow flag, `stack` holds the operations whose user function   *)
(* is currently running (a user function may call back into the queue).    *)
(* pushed/popped/ev are history variables: what was appended to and taken  *)
(* from each buffer, and the last call that returned or panicked.          *)
(* A closure handed to with may call any operation except with itself; a   *)
(* function handed to map or bounce may call any operation.                *)
(***************************************************************************)
EXTENDS Integers, Sequences, FiniteSets, TLC

VARIABLES store, borrow, stack, faulted, ev, pushed, popped, views

vars == <<store, borrow, stack, faulted, ev, pushed, popped, views>>

\* ---- bounds of the model ----
MaxLog == 3

\* the events: both directions carry the same small element type
Val == {1, 2}
Endpoints == {"P", "S"}
\* the Secondary values a caller may hold: each one wraps &Queue
Views == {"S", "S2"}

\* user functions handed to bounce, map and with
BounceFs == {"some", "none", "odd"}
MapFs == {"succ"}
WithFs == {"last"}
CowKinds == {"borrowed", "owned"}

\* ---- the user functions ----
\* F: FnMut(T) -> Option<U>; Some(y) is <<y>>, None is <<>> (what flat_map
\* iterates over)
BounceFn(f, x) ==
  CASE f = "some" -> <<x>>
    [] f = "none" -> <<>>
    [] f = "odd"  -> IF x % 2 = 1 THEN <<(x % Cardinality(Val)) + 1>> ELSE <<>>

\* F: FnMut(&Item) -> R; "clone" is Clone::clone
MapFn(f, x) ==
  CASE f = "clone" -> x
    [] f = "succ"  -> (x % Cardinality(Val)) + 1

\* F: FnOnce(&[Item]) -> R; "last" is |v| v.last().cloned(), an Option
WithFn(g, view) ==
  CASE g = "last" -> IF view = <<>> THEN <<>> ELSE <<view[Len(view)]>>

\* the workload: the n-th element appended to a buffer, when it is emitted,
\* carries this value (consecutive emitted values differ)
EmitVal(n) == (n % Cardinality(Val)) + 1

\* a borrow_mut() whose test of the flag is inverted
TryBorrowMutInverted(flag) == flag # "unused"

\* ---- RefCell ----
\* borrow_mut that does not look at the flag
TryBorrowMutUnchecked(flag) == TRUE

TryBorrowMut(flag) == flag = "unused"

\* borrow that does not look at the flag
TryBorrowUnchecked(flag) == TRUE

TryBorrow(flag) == flag # "writing"

\* ---- VecDeque ----
\* push_front in place of push_back
PushFront(q, x) == <<x>> \o q

PushBack(q, x) == Append(q, x)

\* Cow::into_owned: a borrowed value is cloned, an owned one is moved
IntoOwned(kind, x) == IF kind = "borrowed" THEN MapFn("clone", x) ELSE x

\* ---- which half of the tuple each method touches ----
\* (inevq, outevq) of Queue::bounce and Secondary::bounce
\* Secondary::bounce with the buffers of Queue::bounce
BounceBufsOfQueue(e) == <<1, 2>>

BounceBufs(e) == IF e = "P" THEN <<1, 2>> ELSE <<2, 1>>

\* buffer_is_empty looking at the caller's own inbox
EmptyBufOwn(e) == IF e = "P" THEN 1 ELSE 2

\* buffer_is_empty
EmptyBuf(e) == IF e = "P" THEN 2 ELSE 1

\* Secondary::emit pushing on the buffer of Queue::emit
EmitBufOfQueue(e) == 2

\* emit
EmitBuf(e) == IF e = "P" THEN 2 ELSE 1

\* Secondary's map / peek / with draining the buffer of Queue's
ListenBufOfQueue(e) == 1

\* map / peek / with draining the buffer the endpoint emits into
ListenBufSwapped(e) == IF e = "P" THEN 2 ELSE 1

\* map / peek / with
ListenBuf(e) == IF e = "P" THEN 1 ELSE 2

\* ---- the operations as functions of the store ----
EmitOp(st, e, kind, x) ==
  [st EXCEPT ![EmitBuf(e)] = PushBack(@, IntoOwned(kind, x))]

IsEmptyOp(st, e) == st[EmptyBuf(e)] = <<>>

\* a drain that reads the buffer and leaves it in place
MemReplaceKeep(st, b) == st

\* std::mem::replace(&mut q, VecDeque::new()): q is left empty
MemReplace(st, b) == [st EXCEPT ![b] = <<>>]

\* .iter().map(f).collect()
RECURSIVE Collect(_, _)
Collect(f, q) ==
  IF q = <<>> THEN <<>>
  ELSE <<MapFn(f, Head(q))>> \o Collect(f, Tail(q))

\* a map that takes the whole tuple out of the RefCell
MapOpTakeAll(st, e, f) ==
  [store |-> <<<<>>, <<>>>>,
   res   |-> Collect(f, st[ListenBuf(e)])]

\* map whose function makes no call into the queue
MapOp(st, e, f) ==
  [store |-> MemReplace(st, ListenBuf(e)),
   res   |-> Collect(f, st[ListenBuf(e)])]

\* peek is self.map(Clone::clone)
PeekOp(st, e) == MapOp(st, e, "clone")

\* outevq.extend(taken.into_iter().flat_map(f))
RECURSIVE ExtendFlatMap(_, _, _)
ExtendFlatMap(out, f, taken) ==
  IF taken = <<>> THEN out
  ELSE LET opt == BounceFn(f, Head(taken)) IN
       ExtendFlatMap(IF opt = <<>> THEN out ELSE PushBack(out, opt[1]),
                     f, Tail(taken))

\* bounce whose transform makes no call into the queue
BounceOp(st, e, f) ==
  [MemReplace(st, BounceBufs(e)[1]) EXCEPT
     ![BounceBufs(e)[2]] = ExtendFlatMap(@, f, st[BounceBufs(e)[1]])]

\* ---- call stack ----
Top == stack[Len(stack)]

Frame(op, e, f, taken, st0) ==
  [op |-> op, ep |-> e, f |-> f, pending |-> taken, cur |-> <<>>,
   acc |-> <<>>, st0 |-> st0]

\* a closure handed to with is running
WithActive == \E i \in DOMAIN stack : stack[i].op = "with"

\* control is in user code (or at top level): a call can be made
InUserCode == stack # <<>> /\ (Top.op = "with" \/ Top.cur # <<>>)

CanInvoke == ~faulted /\ (stack = <<>> \/ InUserCode)

\* ret names what came back, res is a returned Vec or Option, flag a
\* returned bool
NewEv(op, e, f, arg, ok, ret, res, flag, pre) ==
  [op |-> op, ep |-> e, f |-> f, arg |-> arg, ok |-> ok, ret |-> ret,
   res |-> res, flag |-> flag, pre |-> pre]

\* a constructor that leaves an element in the inbox of the primary
InitDirty ==
  /\ store = <<<<1>>, <<>>>>
  /\ borrow = "unused"
  /\ stack = <<>>
  /\ faulted = FALSE
  /\ ev = [op |-> "new", ep |-> "P", f |-> "-", arg |-> 0, ok |-> TRUE,
           ret |-> "Queue", res |-> <<>>, flag |-> FALSE,
           pre |-> <<<<>>, <<>>>>]
  /\ pushed = <<<<>>, <<>>>>
  /\ popped = <<<<>>, <<>>>>
  /\ views = {}

\* borrow() / borrow_mut() panics: already borrowed
Fault(op, e, arg) ==
  /\ faulted' = TRUE
  /\ ev' = NewEv(op, e, "-", arg, FALSE, "panic", <<>>, FALSE, store)
  /\ UNCHANGED <<views, store, borrow, stack, pushed, popped>>

Init ==
  /\ store = <<<<>>, <<>>>>
  /\ borrow = "unused"
  /\ stack = <<>>
  /\ faulted = FALSE
  /\ ev = [op |-> "new", ep |-> "P", f |-> "-", arg |-> 0, ok |-> TRUE,
           ret |-> "Queue", res |-> <<>>, flag |-> FALSE,
           pre |-> <<<<>>, <<>>>>]
  /\ pushed = <<<<>>, <<>>>>
  /\ popped = <<<<>>, <<>>>>
  /\ views = {}

\* the endpoints a caller can call: the Queue and the views handed out
Live == {"P"} \cup views

\* ---- Queue::secondary ----
\* a secondary() that hands out a view of a store of its own
SecondaryFresh(v) ==
  /\ CanInvoke
  /\ v \notin views
  /\ views' = views \cup {v}
  /\ store' = <<<<>>, <<>>>>
  /\ UNCHANGED <<borrow, stack, faulted, ev, pushed, popped>>

\* Secondary(self): the value v wraps a reference to the Queue, nothing of
\* the Queue is read or written
Secondary(v) ==
  /\ CanInvoke
  /\ v \notin views
  /\ views' = views \cup {v}
  /\ UNCHANGED <<store, borrow, stack, faulted, ev, pushed, popped>>

\* ---- Emitter::emit ----
Emit(e, kind, x) ==
  /\ CanInvoke
  /\ x = EmitVal(Len(pushed[EmitBuf(e)]))
  /\ IF TryBorrowMut(borrow)
     THEN /\ Len(pushed[EmitBuf(e)]) < MaxLog
          /\ store' = EmitOp(store, e, kind, x)
          /\ pushed' = [pushed EXCEPT ![EmitBuf(e)] = Append(@, x)]
          /\ ev' = NewEv("emit", e, "-", x, TRUE, "Delivered", <<>>, FALSE,
                          store)
          /\ UNCHANGED <<views, borrow, stack, faulted, popped>>
     ELSE Fault("emit", e, x)

\* buffer_is_empty that takes the buffer out to look at it
BufferIsEmptyDrain(e) ==
  /\ CanInvoke
  /\ IF TryBorrow(borrow)
     THEN /\ ev' = NewEv("buffer_is_empty", e, "-", 0, TRUE, "bool", <<>>,
                          IsEmptyOp(store, e), store)
          /\ store' = MemReplace(store, EmptyBuf(e))
          /\ UNCHANGED <<views, borrow, stack, faulted, pushed, popped>>
     ELSE Fault("buffer_is_empty", e, 0)

\* ---- QueueInterfaceCommon::buffer_is_empty ----
BufferIsEmpty(e) ==
  /\ CanInvoke
  /\ IF TryBorrow(borrow)
     THEN /\ ev' = NewEv("buffer_is_empty", e, "-", 0, TRUE, "bool", <<>>,
                          IsEmptyOp(store, e), store)
          /\ UNCHANGED <<views, store, borrow, stack, faulted, pushed, popped>>
     ELSE Fault("buffer_is_empty", e, 0)

\* ---- Listen::peek ----
Peek(e) ==
  /\ CanInvoke
  /\ IF TryBorrowMut(borrow)
     THEN LET r == PeekOp(store, e) IN
          /\ store' = r.store
          /\ popped' = [popped EXCEPT ![ListenBuf(e)] = @ \o r.res]
          /\ ev' = NewEv("peek", e, "-", 0, TRUE, "Vec", r.res, FALSE, store)
          /\ UNCHANGED <<views, borrow, stack, faulted, pushed>>
     ELSE Fault("peek", e, 0)

\* with that shows the closure the inbox without draining it
WithBeginNoDrain(e, g) ==
  /\ CanInvoke
  /\ ~WithActive
  /\ IF TryBorrowMut(borrow)
     THEN /\ stack' = Append(stack,
                        Frame("with", e, g, store[ListenBuf(e)], <<>>))
          /\ UNCHANGED <<views, store, borrow, faulted, ev, pushed, popped>>
     ELSE Fault("with", e, 0)

\* a with that keeps the RefMut of its drain while the closure runs
WithBeginHoldingGuard(e, g) ==
  /\ CanInvoke
  /\ ~WithActive
  /\ IF TryBorrowMut(borrow)
     THEN LET r == PeekOp(store, e) IN
          /\ borrow' = "writing"
          /\ store' = r.store
          /\ popped' = [popped EXCEPT ![ListenBuf(e)] = @ \o r.res]
          /\ stack' = Append(stack, Frame("with", e, g, r.res, <<>>))
          /\ UNCHANGED <<views, faulted, ev, pushed>>
     ELSE Fault("with", e, 0)

\* ---- Listen::with: f(&self.peek()[..]) ----
WithBegin(e, g) ==
  /\ CanInvoke
  /\ ~WithActive
  /\ IF TryBorrowMut(borrow)
     THEN LET r == PeekOp(store, e) IN
          /\ store' = r.store
          /\ popped' = [popped EXCEPT ![ListenBuf(e)] = @ \o r.res]
          /\ stack' = Append(stack, Frame("with", e, g, r.res, <<>>))
          /\ UNCHANGED <<views, borrow, faulted, ev, pushed>>
     ELSE Fault("with", e, 0)

WithReturn ==
  /\ ~faulted
  /\ stack # <<>>
  /\ Top.op = "with"
  /\ stack' = SubSeq(stack, 1, Len(stack) - 1)
  /\ ev' = NewEv("with", Top.ep, Top.f, 0, TRUE, "R",
                 WithFn(Top.f, Top.pending), FALSE, <<>>)
  /\ UNCHANGED <<views, store, borrow, faulted, pushed, popped>>

\* a map that takes the buffer out in a statement of its own, so that the
\* RefMut is dropped before f is applied
MapBeginReleased(e, f) ==
  /\ CanInvoke
  /\ IF TryBorrowMut(borrow)
     THEN /\ store' = MemReplace(store, ListenBuf(e))
          /\ stack' = Append(stack,
                        Frame("map", e, f, store[ListenBuf(e)], store))
          /\ UNCHANGED <<views, borrow, faulted, ev, pushed, popped>>
     ELSE Fault("map", e, 0)

\* ---- Listen::map ----
\* the RefMut is a temporary of the whole expression: it is held until
\* collect() has finished
MapBegin(e, f) ==
  /\ CanInvoke
  /\ IF TryBorrowMut(borrow)
     THEN /\ borrow' = "writing"
          /\ store' = MemReplace(store, ListenBuf(e))
          /\ stack' = Append(stack,
                        Frame("map", e, f, store[ListenBuf(e)], store))
          /\ UNCHANGED <<views, faulted, ev, pushed, popped>>
     ELSE Fault("map", e, 0)

\* the iterator hands the next element to f
MapCall ==
  /\ ~faulted
  /\ stack # <<>>
  /\ Top.op = "map"
  /\ Top.cur = <<>>
  /\ Top.pending # <<>>
  /\ stack' = [stack EXCEPT ![Len(stack)] =
                 [@ EXCEPT !.cur = <<Head(Top.pending)>>,
                           !.pending = Tail(Top.pending)]]
  /\ popped' = [popped EXCEPT ![ListenBuf(Top.ep)] =
                  Append(@, Head(Top.pending))]
  /\ UNCHANGED <<views, store, borrow, faulted, ev, pushed>>

\* collect() that stores the results in reverse
MapReturnRev ==
  /\ ~faulted
  /\ stack # <<>>
  /\ Top.op = "map"
  /\ Top.cur # <<>>
  /\ stack' = [stack EXCEPT ![Len(stack)] =
                 [@ EXCEPT !.cur = <<>>,
                           !.acc = <<MapFn(Top.f, Top.cur[1])>> \o @]]
  /\ UNCHANGED <<views, store, borrow, faulted, ev, pushed, popped>>

\* f returns; collect() stores the result
MapReturn ==
  /\ ~faulted
  /\ stack # <<>>
  /\ Top.op = "map"
  /\ Top.cur # <<>>
  /\ stack' = [stack EXCEPT ![Len(stack)] =
                 [@ EXCEPT !.cur = <<>>,
                           !.acc = Append(@, MapFn(Top.f, Top.cur[1]))]]
  /\ UNCHANGED <<views, store, borrow, faulted, ev, pushed, popped>>

MapEnd ==
  /\ ~faulted
  /\ stack # <<>>
  /\ Top.op = "map"
  /\ Top.cur = <<>>
  /\ Top.pending = <<>>
  /\ borrow' = "unused"
  /\ stack' = SubSeq(stack, 1, Len(stack) - 1)
  /\ ev' = NewEv("map", Top.ep, Top.f, 0, TRUE, "Vec", Top.acc, FALSE,
                 Top.st0)
  /\ UNCHANGED <<views, store, faulted, pushed, popped>>

\* ---- Queue::bounce / Secondary::bounce ----
BounceBegin(e, f) ==
  /\ CanInvoke
  /\ IF TryBorrowMut(borrow)
     THEN /\ Len(pushed[BounceBufs(e)[2]]) + Len(store[BounceBufs(e)[1]])
               <= MaxLog
          /\ borrow' = "writing"
          /\ store' = MemReplace(store, BounceBufs(e)[1])
          /\ stack' = Append(stack,
                        Frame("bounce", e, f, store[BounceBufs(e)[1]], store))
          /\ UNCHANGED <<views, faulted, ev, pushed, popped>>
     ELSE Fault("bounce", e, 0)

\* an iterator that hands out its first element without advancing
BounceCallNoAdvance ==
  /\ ~faulted
  /\ stack # <<>>
  /\ Top.op = "bounce"
  /\ Top.cur = <<>>
  /\ Top.pending # <<>>
  /\ stack' = [stack EXCEPT ![Len(stack)] =
                 [@ EXCEPT !.cur = <<Head(Top.pending)>>]]
  /\ popped' = [popped EXCEPT ![BounceBufs(Top.ep)[1]] =
                  Append(@, Head(Top.pending))]
  /\ UNCHANGED <<views, store, borrow, faulted, ev, pushed>>

\* flat_map takes the next element of into_iter() and calls f on it
BounceCall ==
  /\ ~faulted
  /\ stack # <<>>
  /\ Top.op = "bounce"
  /\ Top.cur = <<>>
  /\ Top.pending # <<>>
  /\ stack' = [stack EXCEPT ![Len(stack)] =
                 [@ EXCEPT !.cur = <<Head(Top.pending)>>,
                           !.pending = Tail(Top.pending)]]
  /\ popped' = [popped EXCEPT ![BounceBufs(Top.ep)[1]] =
                  Append(@, Head(Top.pending))]
  /\ UNCHANGED <<views, store, borrow, faulted, ev, pushed>>

\* extend() that appends the forwarded item twice
BounceExtendTwice(q, opt) ==
  IF opt = <<>> THEN q ELSE PushBack(PushBack(q, opt[1]), opt[1])

\* extend() over a transform result unwrapped with a default: a None
\* appends the default value
BounceExtendDefault(q, opt) ==
  PushBack(q, IF opt = <<>> THEN 0 ELSE opt[1])

\* extend() that puts the forwarded item ahead of the pending ones
BounceExtendFront(q, opt) == IF opt = <<>> THEN q ELSE <<opt[1]>> \o q

\* f returns an Option; extend() pushes its item, if any, on outevq
BounceExtend(q, opt) == IF opt = <<>> THEN q ELSE PushBack(q, opt[1])

BounceReturn ==
  /\ ~faulted
  /\ stack # <<>>
  /\ Top.op = "bounce"
  /\ Top.cur # <<>>
  /\ LET opt == BounceFn(Top.f, Top.cur[1])
         out == BounceBufs(Top.ep)[2] IN
     /\ store' = [store EXCEPT ![out] = BounceExtend(@, opt)]
     /\ pushed' = [pushed EXCEPT ![out] = @ \o opt]
  /\ stack' = [stack EXCEPT ![Len(stack)] = [@ EXCEPT !.cur = <<>>]]
  /\ UNCHANGED <<views, borrow, faulted, ev, popped>>

BounceEnd ==
  /\ ~faulted
  /\ stack # <<>>
  /\ Top.op = "bounce"
  /\ Top.cur = <<>>
  /\ Top.pending = <<>>
  /\ borrow' = "unused"
  /\ stack' = SubSeq(stack, 1, Len(stack) - 1)
  /\ ev' = NewEv("bounce", Top.ep, Top.f, 0, TRUE, "()", <<>>, FALSE,
                 Top.st0)
  /\ UNCHANGED <<views, store, faulted, pushed, popped>>

Next ==
  \/ Secondary("S")
  \/ \E e \in Endpoints \cap Live, k \in CowKinds, x \in Val : Emit(e, k, x)
  \/ \E e \in Endpoints \cap Live : BufferIsEmpty(e)
  \/ \E e \in Endpoints \cap Live : Peek(e)
  \/ \E e \in Endpoints \cap Live, g \in WithFs : WithBegin(e, g)
  \/ WithReturn
  \/ \E e \in Endpoints \cap Live, f \in MapFs : MapBegin(e, f)
  \/ MapCall
  \/ MapReturn
  \/ MapEnd
  \/ \E e \in Endpoints \cap Live, f \in BounceFs : BounceBegin(e, f)
  \/ BounceCall
  \/ BounceReturn
  \/ BounceEnd

Spec == Init /\ [][Next]_vars

\* callers that hold several views of the one Queue and use the operations
\* that take no function or whose function is the transform of bounce
NextViews ==
  \/ \E v \in Views : Secondary(v)
  \/ \E e \in Live, k \in CowKinds, x \in Val : Emit(e, k, x)
  \/ \E e \in Live : BufferIsEmpty(e)
  \/ \E e \in Live : Peek(e)
  \/ \E e \in Live, f \in BounceFs : BounceBegin(e, f)
  \/ BounceCall
  \/ BounceReturn
  \/ BounceEnd

SpecViews == Init /\ [][NextViews]_vars

\* ---- vocabulary of the properties ----
\* the store is (inbox of the primary, inbox of the secondary)
InboxOf(e) == IF e = "P" THEN 1 ELSE 2

OutboxOf(e) == IF e = "P" THEN 2 ELSE 1

\* the elements a running map or bounce has taken from buffer b and not yet
\* handed to its function
InFlight(b) ==
  IF stack # <<>> /\ Top.op \in {"map", "bounce"} /\ InboxOf(Top.ep) = b
  THEN Top.pending ELSE <<>>

\* this step is the return of an operation that ran its user function
Returns(op) ==
  /\ stack # <<>>
  /\ Top.op = op
  /\ Len(stack') = Len(stack) - 1
  /\ ev'.ok

\* this step ends a call: it returned or it panicked
EvChanged == ev' # ev

\* this step is a call of op that returned at once
Returned(op) == EvChanged /\ ev'.op = op /\ ev'.ok

\* f applied to each element, in order
Image(f, q) == [i \in 1..Len(q) |-> MapFn(f, q[i])]

\* the Some results of f over q, in order
RECURSIVE SomeResults(_, _)
SomeResults(f, q) ==
  IF q = <<>> THEN <<>>
  ELSE BounceFn(f, Head(q)) \o SomeResults(f, Tail(q))

\* emit each element of q, in order, on endpoint e
RECURSIVE EmitAll(_, _, _)
EmitAll(st, e, q) ==
  IF q = <<>> THEN st
  ELSE EmitAll(EmitOp(st, e, "owned", Head(q)), e, Tail(q))

\* C1: FIFO delivery. Per buffer, what has been handed out by drains (in
\* call order), followed by what a running drain still holds and by what is
\* still stored, is exactly what was appended, in the order it was appended.
C1_Fifo ==
  \A b \in {1, 2} : pushed[b] = popped[b] \o InFlight(b) \o store[b]

\* two drains by the secondary, the second returning two distinct elements
\* in emission order
C1_Witness ==
  /\ ev.op = "peek" /\ ev.ok /\ ev.ep = "S"
  /\ Len(ev.res) = 2 /\ ev.res[1] # ev.res[2]
  /\ Len(popped[2]) = 3
  /\ ev.pre[2] = ev.res

\* C2: peek and map are destructive drains. A peek returns the whole inbox
\* and leaves it empty, a map returns the image of the whole inbox and
\* leaves it empty, and a drain that directly follows a drain of the same
\* endpoint returns nothing.
C2_Drain ==
  [][ /\ Returned("peek") =>
           /\ ev'.res = store[InboxOf(ev'.ep)]
           /\ store'[InboxOf(ev'.ep)] = <<>>
           /\ popped'[InboxOf(ev'.ep)] = popped[InboxOf(ev'.ep)] \o ev'.res
      /\ Returns("map") =>
           /\ ev'.res = Image(Top.f, Top.st0[InboxOf(Top.ep)])
           /\ store'[InboxOf(Top.ep)] = <<>>
      /\ ( /\ ev.op \in {"peek", "map"} /\ ev.ok
           /\ (Returned("peek") \/ Returns("map"))
           /\ ev'.ep = ev.ep ) => ev'.res = <<>>
    ]_vars

\* everything emitted to the secondary was drained and the last peek of the
\* secondary returned nothing
C2_Witness ==
  /\ ev.op = "peek" /\ ev.ok /\ ev.ep = "S" /\ ev.res = <<>>
  /\ Len(popped[2]) >= 2 /\ popped[2] = pushed[2]
  /\ stack = <<>>

\* C3: bounce(f) from inbox [x1..xn] and outbox O ends with the inbox empty
\* and the outbox O followed by the Some results of f(x1)..f(xn) in order.
C3_Bounce ==
  [][ Returns("bounce") =>
        /\ store'[InboxOf(Top.ep)] = <<>>
        /\ store'[OutboxOf(Top.ep)] =
             Top.st0[OutboxOf(Top.ep)]
               \o SomeResults(Top.f, Top.st0[InboxOf(Top.ep)])
    ]_vars

\* the secondary bounced two elements, one dropped and one forwarded behind
\* an element already pending in its outbox
C3_Witness ==
  /\ ev.op = "bounce" /\ ev.ok /\ ev.ep = "S" /\ ev.f = "odd"
  /\ Len(ev.pre[2]) = 2 /\ Len(ev.pre[1]) = 1
  /\ Len(store[1]) = 2 /\ store[2] = <<>>
  /\ stack = <<>>

\* C4: buffer_is_empty returns true exactly when the caller's outbox (the
\* inbox of the counterpart) is empty, whatever the caller's own inbox holds.
C4_BufferIsEmpty ==
  [][ Returned("buffer_is_empty") =>
        /\ ev'.flag = (store[OutboxOf(ev'.ep)] = <<>>)
        /\ ev'.ep = "P" => ev'.flag = (store[2] = <<>>)
        /\ ev'.ep = "S" => ev'.flag = (store[1] = <<>>)
    ]_vars

\* the secondary's own inbox is empty, its outbox is not: the answer is false
C4_Witness ==
  /\ ev.op = "buffer_is_empty" /\ ev.ok /\ ev.ep = "S"
  /\ ev.pre[2] = <<>> /\ ev.pre[1] # <<>>
  /\ ev.ret = "bool" /\ ev.flag = FALSE

\* C5: an emit called while no other operation is in progress returns
\* Delivered and appends exactly the emitted value at the tail of the
\* caller's outbox; no emit that returns reports anything but Delivered.
C5_Emit ==
  [][ /\ (EvChanged /\ ev'.op = "emit" /\ stack = <<>>) =>
           /\ ev'.ok
           /\ ev'.ret = "Delivered"
           /\ store'[OutboxOf(ev'.ep)] =
                Append(store[OutboxOf(ev'.ep)], ev'.arg)
           /\ store'[InboxOf(ev'.ep)] = store[InboxOf(ev'.ep)]
      /\ Returned("emit") => ev'.ret = "Delivered"
    ]_vars

\* an emit behind an element the counterpart has not drained, the counterpart
\* never having drained at all
C5_Witness ==
  /\ ev.op = "emit" /\ ev.ok /\ ev.ep = "S" /\ ev.ret = "Delivered"
  /\ ev.pre[1] # <<>>
  /\ popped[1] = <<>>
  /\ store[1] = Append(ev.pre[1], ev.arg)

\* the transform of a bounce is running
InBounceFn == stack # <<>> /\ Top.op = "bounce" /\ Top.cur # <<>>

\* operations that hold the exclusive guard
GuardHolders == {i \in DOMAIN stack : stack[i].op \in {"map", "bounce"}}

\* C6: at most one operation holds the exclusive guard, and while the
\* transform of a bounce runs the only steps are the transform's return and
\* calls that fault and leave both buffers as they were.
C6_Exclusive ==
  [][ /\ Cardinality(GuardHolders') <= 1
      /\ (borrow' = "writing") <=> (GuardHolders' # {})
      /\ InBounceFn =>
           \/ faulted' /\ ~ev'.ok /\ store' = store /\ stack' = stack
           \/ /\ ~faulted' /\ ~EvChanged
              /\ Len(stack') = Len(stack)
              /\ stack'[Len(stack')].cur = <<>>
    ]_vars

\* an emit called from inside the transform of a bounce faulted
C6_Witness ==
  /\ faulted /\ ev.op = "emit" /\ ~ev.ok
  /\ InBounceFn
  /\ Top.pending # <<>>

\* a bounce is between emptying its inbox and its return
BounceActive == \E i \in DOMAIN stack : stack[i].op = "bounce"

\* C7: while a bounce is in progress no call returns a value: the only call
\* that returns is the bounce itself, once it has completed.
C7_Atomic ==
  [][ (BounceActive /\ EvChanged /\ ev'.ok) =>
        /\ ev'.op = "bounce"
        /\ ~BounceActive'
        /\ Top.pending = <<>> /\ Top.cur = <<>>
    ]_vars

\* a bounce has emptied its inbox and forwarded a part; the query made from
\* inside its transform faulted
C7_Witness ==
  /\ faulted /\ ev.op = "buffer_is_empty" /\ ~ev.ok
  /\ InBounceFn
  /\ store[InboxOf(Top.ep)] = <<>>
  /\ Top.st0[InboxOf(Top.ep)] # <<>>
  /\ store[OutboxOf(Top.ep)] # Top.st0[OutboxOf(Top.ep)]

\* C8: map(f) yields what peek followed by f on each element yields, and
\* leaves the store peek leaves.
C8_MapIsPeekThenApply ==
  [][ Returns("map") =>
        LET pk == PeekOp(Top.st0, Top.ep) IN
        /\ ev'.res = Image(Top.f, pk.res)
        /\ store' = pk.store
    ]_vars

\* a map over two elements with distinct results, the outbox not empty
C8_Witness ==
  /\ ev.op = "map" /\ ev.ok /\ ev.ep = "P"
  /\ Len(ev.res) = 2 /\ ev.res[1] # ev.res[2]
  /\ ev.pre[2] # <<>>
  /\ store = <<<<>>, ev.pre[2]>>

\* the closure of a with has just been called
WithCalled ==
  /\ Len(stack') = Len(stack) + 1
  /\ stack'[Len(stack')].op = "with"

\* C9: with(f) calls f once, also on an empty inbox, with the inbox contents
\* of the moment of the call, which it drains; the view does not change
\* while f runs; with returns f's result.
C9_With ==
  [][ /\ (EvChanged /\ ev'.op = "with" /\ ev'.ok) => Returns("with")
      /\ (~WithActive /\ WithActive') => WithCalled
      /\ WithCalled =>
           /\ stack'[Len(stack')].pending = store[InboxOf(stack'[Len(stack')].ep)]
           /\ store'[InboxOf(stack'[Len(stack')].ep)] = <<>>
           /\ store'[OutboxOf(stack'[Len(stack')].ep)] =
                store[OutboxOf(stack'[Len(stack')].ep)]
      /\ \A i \in DOMAIN stack :
           (stack[i].op = "with" /\ i \in DOMAIN stack' /\ i < Len(stack))
             => stack'[i] = stack[i]
      /\ (stack # <<>> /\ Top.op = "with" /\ Len(stack') = Len(stack)) =>
             stack' = stack
      /\ Returns("with") => ev'.res = WithFn(Top.f, Top.pending)
    ]_vars

\* the closure runs on a view of two elements while an event sent to this
\* endpoint since the call sits in the inbox
C9_Witness ==
  /\ stack # <<>> /\ Top.op = "with" /\ Top.ep = "S"
  /\ Len(Top.pending) = 2
  /\ Len(store[2]) = 1
  /\ ~faulted

\* C10: bounce with the Some-wrapping identity leaves the store that peek
\* followed by an emit of each drained element, in order, leaves.
C10_BounceSomeIsPeekEmit ==
  [][ (Returns("bounce") /\ Top.f = "some") =>
        LET pk == PeekOp(Top.st0, Top.ep) IN
        store' = EmitAll(pk.store, Top.ep, pk.res)
    ]_vars

\* the identity bounce forwarded two distinct elements behind a pending one
C10_Witness ==
  /\ ev.op = "bounce" /\ ev.ok /\ ev.f = "some" /\ ev.ep = "P"
  /\ Len(ev.pre[1]) = 2 /\ ev.pre[1][1] # ev.pre[1][2]
  /\ ev.pre[2] # <<>>
  /\ store[2] = ev.pre[2] \o ev.pre[1]

\* C11: bounce with a transform that returns None for every element empties
\* the inbox and leaves the outbox exactly as it was: the dropped elements
\* are in no buffer afterwards.
C11_BounceNone ==
  [][ (Returns("bounce") /\ Top.f = "none") =>
        /\ store'[InboxOf(Top.ep)] = <<>>
        /\ store'[OutboxOf(Top.ep)] = Top.st0[OutboxOf(Top.ep)]
        /\ Len(store'[1]) + Len(store'[2]) =
             Len(Top.st0[OutboxOf(Top.ep)])
    ]_vars

\* the secondary dropped two elements, its outbox holding one
C11_Witness ==
  /\ ev.op = "bounce" /\ ev.ok /\ ev.ep = "S" /\ ev.f = "none"
  /\ Len(ev.pre[2]) = 2 /\ Len(ev.pre[1]) = 1
  /\ store = <<ev.pre[1], <<>>>>
  /\ stack = <<>>

\* C12: buffer_is_empty changes nothing: both buffers, the guard and the
\* running operations are the same before and after, its answer is still
\* true of the store it leaves, and a call that follows a call of the same
\* endpoint on the same store gets the same answer.
C12_BufferIsEmptyPure ==
  [][ /\ (EvChanged /\ ev'.op = "buffer_is_empty") =>
           /\ store' = store
           /\ borrow' = borrow
           /\ stack' = stack
           /\ pushed' = pushed /\ popped' = popped
      /\ Returned("buffer_is_empty") =>
           ev'.flag = (store'[OutboxOf(ev'.ep)] = <<>>)
      /\ ( /\ ev.op = "buffer_is_empty" /\ ev.ok
           /\ Returned("buffer_is_empty")
           /\ ev'.ep = ev.ep /\ ev'.pre = ev.pre ) => ev'.flag = ev.flag
    ]_vars

\* the primary asked while its outbox held two elements: they are still there
C12_Witness ==
  /\ ev.op = "buffer_is_empty" /\ ev.ok /\ ev.ep = "P"
  /\ ev.ret = "bool" /\ ev.flag = FALSE
  /\ Len(ev.pre[2]) = 2
  /\ store = ev.pre

\* C13: all the views obtained from one Queue work on the one store.
\* Obtaining a view changes no buffer; what any view emits is appended to
\* the inbox of the primary, in the order of the emits; what the primary
\* emitted is handed out once over all the views, in order: a drain through
\* one view that follows a drain through another finds nothing.
C13_OneStore ==
  [][ /\ views' # views =>
           /\ store' = store /\ borrow' = borrow
           /\ pushed' = pushed /\ popped' = popped
      /\ (Returned("emit") /\ ev'.ep \in Views) =>
           /\ store'[1] = Append(store[1], ev'.arg)
           /\ store'[2] = store[2]
      /\ (Returned("peek") /\ ev'.ep \in Views) =>
           /\ ev'.res = store[2]
           /\ store'[2] = <<>>
           /\ popped'[2] = popped[2] \o ev'.res
      /\ ( /\ ev.op = "peek" /\ ev.ok /\ ev.ep \in Views
           /\ Returned("peek") /\ ev'.ep \in Views /\ ev'.ep # ev.ep ) =>
           ev'.res = <<>>
      /\ \A b \in 1..2 : pushed'[b] = popped'[b] \o InFlight(b)' \o store'[b]
    ]_vars

\* two views are held; the primary emitted twice, one view drained both
\* elements and the drain through the other view then found nothing
C13_Witness ==
  /\ views = Views
  /\ ev.op = "peek" /\ ev.ok /\ ev.ep = "S2" /\ ev.res = <<>>
  /\ Len(popped[2]) = 2 /\ pushed[2] = popped[2]
  /\ Len(store[1]) = 2

\* the operations that write the store
MutatingOps == {"emit", "peek", "map", "with", "bounce"}

\* C14 as stated: a fault is raised only when a mutating operation is called
\* while another operation on the store is in progress; every other call,
\* and every call of buffer_is_empty, returns.
C14_Original ==
  [][ /\ (EvChanged /\ ~ev'.ok) =>
           (ev'.op \in MutatingOps /\ stack # <<>>)
      /\ (EvChanged /\ stack = <<>>) => ev'.ok
      /\ (EvChanged /\ ev'.op = "buffer_is_empty") => ev'.ok
    ]_vars

\* C14: a fault is raised only when an operation, a mutating one or the
\* query buffer_is_empty, is called while the function of a map or a bounce
\* on the store is running, that is, while the exclusive guard is held; every
\* call made in any other situation returns, the calls made from the closure
\* of a with included.
C14_Faults ==
  [][ /\ (EvChanged /\ ~ev'.ok) =>
           /\ ev'.op \in MutatingOps \cup {"buffer_is_empty"}
           /\ borrow = "writing"
           /\ stack # <<>> /\ Top.op \in {"map", "bounce"} /\ Top.cur # <<>>
      /\ (EvChanged /\ GuardHolders = {}) => ev'.ok
      /\ (faulted' /\ ~faulted) => (EvChanged /\ ~ev'.ok)
    ]_vars

\* the query made from inside the function of a map faulted
C14_Witness ==
  /\ faulted /\ ev.op = "buffer_is_empty" /\ ~ev.ok
  /\ stack # <<>> /\ Top.op = "map" /\ Top.cur # <<>>
  /\ borrow = "writing"

\* C15: a new Queue has two empty buffers: as long as nothing was emitted
\* both buffers are empty, buffer_is_empty answers true on both endpoints,
\* peek, map and with see no element, and no function of a map or transform
\* of a bounce is called.
C15_NewIsEmpty ==
  pushed = <<<<>>, <<>>>> =>
    /\ store = <<<<>>, <<>>>>
    /\ popped = <<<<>>, <<>>>>
    /\ \A i \in DOMAIN stack : stack[i].pending = <<>> /\ stack[i].cur = <<>>
    /\ (ev.op = "buffer_is_empty" /\ ev.ok) => ev.flag
    /\ (ev.op \in {"peek", "map", "with"} /\ ev.ok) => ev.res = <<>>
    /\ (ev.op = "bounce" /\ ev.ok) => ev.pre = <<<<>>, <<>>>>

\* the secondary bounced before anything was emitted
C15_Witness ==
  /\ pushed = <<<<>>, <<>>>>
  /\ ev.op = "bounce" /\ ev.ok /\ ev.ep = "S" /\ ev.f = "some"
  /\ stack = <<>>

\* a is an initial part of b
IsPrefix(a, b) == Len(a) <= Len(b) /\ SubSeq(b, 1, Len(a)) = a

\* this step is the start of an operation that runs a user function
Called == Len(stack') = Len(stack) + 1

\* C16: an endpoint only appends to its outbox: in every step each buffer
\* either keeps its contents as an initial part of what it holds afterwards,
\* or is emptied by a drain or bounce of the endpoint whose inbox it is; over
\* a whole bounce the outbox of the caller keeps its contents as initial part.
C16_AppendOnly ==
  [][ /\ \A b \in 1..2 :
           \/ IsPrefix(store[b], store'[b])
           \/ /\ store'[b] = <<>>
              /\ \/ Returned("peek") /\ InboxOf(ev'.ep) = b
                 \/ Called /\ InboxOf(stack'[Len(stack')].ep) = b
      /\ \A op \in {"bounce", "map"} : Returns(op) =>
           IsPrefix(Top.st0[OutboxOf(Top.ep)], store'[OutboxOf(Top.ep)])
      /\ (EvChanged /\ ev'.ok /\ ev'.op \in {"emit", "peek", "buffer_is_empty"})
           => IsPrefix(store[OutboxOf(ev'.ep)], store'[OutboxOf(ev'.ep)])
    ]_vars

\* the primary bounced onto an outbox that held an element, which is still
\* at its head
C16_Witness ==
  /\ ev.op = "bounce" /\ ev.ok /\ ev.ep = "P" /\ ev.f = "odd"
  /\ ev.pre[2] # <<>>
  /\ Len(store[2]) > Len(ev.pre[2])
  /\ IsPrefix(ev.pre[2], store[2])

\* C17: the two directions are independent: emit leaves the inbox of the
\* caller as it was; peek, map and with leave the outbox of the caller as it
\* was; no step changes both buffers.
C17_Independent ==
  [][ /\ Returned("emit") =>
           store'[InboxOf(ev'.ep)] = store[InboxOf(ev'.ep)]
      /\ Returned("peek") =>
           store'[OutboxOf(ev'.ep)] = store[OutboxOf(ev'.ep)]
      /\ (Called /\ stack'[Len(stack')].op \in {"map", "with"}) =>
           store'[OutboxOf(stack'[Len(stack')].ep)] =
             store[OutboxOf(stack'[Len(stack')].ep)]
      /\ (stack # <<>> /\ Top.op = "map" /\ Len(stack') <= Len(stack)
          /\ ~faulted') => store' = store
      /\ Returns("map") =>
           store'[OutboxOf(Top.ep)] = Top.st0[OutboxOf(Top.ep)]
      /\ ~(store'[1] # store[1] /\ store'[2] # store[2])
    ]_vars

\* the primary drained two elements while its outbox held one, which it
\* still holds
C17_Witness ==
  /\ ev.op = "peek" /\ ev.ok /\ ev.ep = "P"
  /\ Len(ev.res) = 2
  /\ Len(ev.pre[2]) = 1
  /\ store = <<<<>>, ev.pre[2]>>

\* the store with its two buffers exchanged, and the counterpart endpoint
Swap(st) == <<st[2], st[1]>>
Other(e) == IF e = "P" THEN "S" ELSE "P"

\* C18: the endpoints are mirror images: what an operation of one endpoint
\* returns and does to the store is what the same operation of the other
\* endpoint returns and does to the store with the two buffers exchanged.
C18_Mirror ==
  [][ /\ Returned("emit") => \A k \in CowKinds :
           Swap(store') = EmitOp(Swap(store), Other(ev'.ep), k, ev'.arg)
      /\ Returned("peek") =>
           LET m == PeekOp(Swap(store), Other(ev'.ep)) IN
           Swap(store') = m.store /\ ev'.res = m.res
      /\ Returned("buffer_is_empty") =>
           ev'.flag = IsEmptyOp(Swap(store), Other(ev'.ep))
      /\ WithCalled =>
           LET m == PeekOp(Swap(store), Other(stack'[Len(stack')].ep)) IN
           Swap(store') = m.store /\ stack'[Len(stack')].pending = m.res
      /\ Returns("map") =>
           LET m == MapOp(Swap(Top.st0), Other(Top.ep), Top.f) IN
           Swap(store') = m.store /\ ev'.res = m.res
      /\ Returns("bounce") =>
           Swap(store') = BounceOp(Swap(Top.st0), Other(Top.ep), Top.f)
    ]_vars

\* the secondary mapped its inbox while its outbox held an element
C18_Witness ==
  /\ ev.op = "map" /\ ev.ok /\ ev.ep = "S"
  /\ ev.res # <<>>
  /\ ev.pre[1] # <<>>
  /\ store = <<ev.pre[1], <<>>>>

\* what a running bounce still has to do: two steps for each element not yet
\* handed to the transform, one for the transform that is running
BounceWork(fr) == 2 * Len(fr.pending) + (IF fr.cur = <<>> THEN 0 ELSE 1)

\* the last n elements of q
LastN(q, n) == SubSeq(q, Len(q) - n + 1, Len(q))

\* C19: a bounce terminates when its transform does: it starts with exactly
\* the elements its inbox held, hands them to the transform one by one in
\* order, each step of it lessens the work left, a step of it is possible
\* until it returns, and what it forwards goes to the outbox and is not
\* handed to the transform: n elements in the inbox make n transform calls.
C19_BounceTerminates ==
  [][ /\ (Called /\ stack'[Len(stack')].op = "bounce") =>
           /\ stack'[Len(stack')].pending = store[InboxOf(stack'[Len(stack')].ep)]
           /\ stack'[Len(stack')].cur = <<>>
           /\ stack'[Len(stack')].st0 = store
      /\ ( /\ stack # <<>> /\ Top.op = "bounce"
           /\ Len(stack') = Len(stack) /\ stack' # stack ) =>
           LET new == stack'[Len(stack')] IN
           /\ BounceWork(new) = BounceWork(Top) - 1
           /\ new.st0 = Top.st0
           /\ \/ /\ Top.cur = <<>>
                 /\ new.cur = <<Head(Top.pending)>>
                 /\ new.pending = Tail(Top.pending)
                 /\ store' = store
              \/ /\ Top.cur # <<>>
                 /\ new.cur = <<>>
                 /\ new.pending = Top.pending
                 /\ store'[InboxOf(Top.ep)] = <<>>
      /\ (stack # <<>> /\ Top.op = "bounce" /\ ~faulted) =>
           ENABLED (BounceCall \/ BounceReturn \/ BounceEnd)
      /\ Returns("bounce") =>
           /\ BounceWork(Top) = 0
           /\ Len(popped[InboxOf(Top.ep)]) >= Len(Top.st0[InboxOf(Top.ep)])
           /\ LastN(popped[InboxOf(Top.ep)], Len(Top.st0[InboxOf(Top.ep)]))
                = Top.st0[InboxOf(Top.ep)]
    ]_vars

\* the primary bounced two elements over to the secondary, and the bounce of
\* the secondary has handed both to its transform and met nothing else
C19_Witness ==
  /\ ev.op = "bounce" /\ ev.ok /\ ev.ep = "P"
  /\ stack # <<>> /\ Top.op = "bounce" /\ Top.ep = "S"
  /\ Len(Top.st0[2]) = 2
  /\ BounceWork(Top) = 0
  /\ store[2] = <<>>
  /\ store[1] # <<>>

\* the number of elements in the two buffers of st
Stored(st) == Len(st[1]) + Len(st[2])

\* the transform of a bounce returns in this step
TransformReturns ==
  /\ stack # <<>> /\ Top.op = "bounce" /\ Top.cur # <<>>
  /\ Len(stack') = Len(stack) /\ stack'[Len(stack')].cur = <<>>

\* C20: delivery is exactly once: of the elements appended to a buffer the
\* first ones were handed out, each once and in order, the others are with
\* the operation that took them or in the buffer, and there is no further
\* element; the store grows only by one element at a time, by an emit or by
\* a transform that forwards the element it was handed, and a whole bounce
\* leaves no more elements than it found.
C20_ExactlyOnce ==
  [][ /\ \A b \in 1..2 :
           /\ IsPrefix(popped[b], popped'[b])
           /\ IsPrefix(pushed[b], pushed'[b])
           /\ IsPrefix(popped'[b], pushed'[b])
           /\ LET held  == Len(InFlight(b)) + Len(store[b])
                  held2 == Len(InFlight(b)') + Len(store'[b]) IN
              /\ Len(pushed'[b]) = Len(popped'[b]) + held2
              /\ Len(popped'[b]) - Len(popped[b]) =
                   (held + Len(pushed'[b])) - (held2 + Len(pushed[b]))
      /\ Stored(store') > Stored(store) =>
           /\ Stored(store') = Stored(store) + 1
           /\ Returned("emit") \/ TransformReturns
      /\ Returns("bounce") => Stored(store') <= Stored(Top.st0)
      /\ (Returned("peek") \/ Called) => Stored(store') <= Stored(store)
    ]_vars

\* the secondary bounced two elements: one was dropped, one forwarded, and
\* both were handed out
C20_Witness ==
  /\ ev.op = "bounce" /\ ev.ok /\ ev.ep = "S" /\ ev.f = "odd"
  /\ Len(ev.pre[2]) = 2
  /\ Stored(store) = Stored(ev.pre) - 1
  /\ popped[2] = pushed[2]
  /\ stack = <<>>

\* the closure of a with is running
InWithFn == stack # <<>> /\ Top.op = "with"

\* C21: the closure of a with runs after the drain, with the guard released:
\* no call made from the closure faults; what is emitted while the closure
\* runs goes to the inbox and not to the view, stays there when with
\* returns, and the next drain of that endpoint returns it.
C21_WithReentrant ==
  [][ /\ WithCalled => (borrow' = "unused" /\ ~faulted')
      /\ InWithFn =>
           /\ borrow = "unused"
           /\ ~faulted'
           /\ EvChanged => ev'.ok
           /\ Len(stack') >= Len(stack) =>
                stack'[Len(stack)].pending = Top.pending
           /\ Returned("emit") =>
                store'[OutboxOf(ev'.ep)] =
                  Append(store[OutboxOf(ev'.ep)], ev'.arg)
      /\ Returns("with") =>
           /\ store' = store
           /\ pushed' = pushed /\ popped' = popped
      /\ Returned("peek") =>
           /\ ev'.res = store[InboxOf(ev'.ep)]
           /\ popped'[InboxOf(ev'.ep)] = pushed'[InboxOf(ev'.ep)]
    ]_vars

\* the closure of the secondary's with runs on a view of one element; the
\* primary emitted from inside it and a peek of the secondary from inside it
\* returned that element, which is not in the view
C21_Witness ==
  /\ InWithFn /\ Top.ep = "S" /\ Len(Top.pending) = 1
  /\ ev.op = "peek" /\ ev.ok /\ ev.ep = "S"
  /\ Len(ev.res) = 1
  /\ pushed[2] = Top.pending \o ev.res
  /\ popped[2] = pushed[2]
  /\ ~faulted

\* the function of a map is running
InMapFn == stack # <<>> /\ Top.op = "map" /\ Top.cur # <<>>

\* C22: while the function of a map runs the guard is held and the inbox of
\* the caller is already empty: every call made from the function, the query
\* buffer_is_empty included, faults and leaves the store as it is; no
\* operation starts and none returns before the function does.
C22_MapNotReentrant ==
  [][ InMapFn =>
        /\ borrow = "writing"
        /\ store[InboxOf(Top.ep)] = <<>>
        /\ store' = store
        /\ ~Called
        /\ EvChanged =>
             /\ ~ev'.ok /\ faulted'
             /\ ev'.op \in MutatingOps \cup {"buffer_is_empty"}
             /\ stack' = stack
        /\ ~EvChanged =>
             \/ views' # views /\ stack' = stack
             \/ /\ views' = views
                /\ Len(stack') = Len(stack)
                /\ stack'[Len(stack')].cur = <<>>
    ]_vars

\* a with called from the function of a map over two elements faulted; the
\* inbox of the mapping endpoint is empty
C22_Witness ==
  /\ faulted /\ ev.op = "with" /\ ~ev.ok
  /\ InMapFn /\ Top.ep = "P"
  /\ Len(Top.st0[1]) = 2
  /\ store[1] = <<>>
====
